---------------------------- MODULE Spec2Model ----------------------------
(***************************************************************************)
(* Spaced-repetition core of cognition-curator: the Flashcard scheduling   *)
(* engine (server/src/models/flashcard.py), the request handlers that      *)
(* drive it (server/src/api/flashcards.py, server/src/api/sync.py), the    *)
(* cached counters of Deck (server/src/models/deck.py) and StudySession    *)
(* (server/src/models/analytics.py).                                       *)
(*                                                                         *)
(* Numbers.  ease_factor and learning_velocity are Python floats that move *)
(* in steps of 0.05; the model keeps them as a record [dec, err]: dec is   *)
(* the value in hundredths (2.5 is 250) and err in {-1, 0, 1} says whether *)
(* the stored double lies below, at or above the double nearest to         *)
(* dec/100.  An inexact float operation (x + 0.15, x - 0.2, ...) may land  *)
(* on any of the three, so its err is an input of the operation.  err is   *)
(* kept only where the code can observe it: at a value the code compares   *)
(* with (1.3, 2.0, 3.0, 0.3, 0.5) and at a multiple of 0.25, where the     *)
(* double may hold the decimal exactly; elsewhere it is 0.                 *)
(* Time is counted in whole days; only the deck specifications let the     *)
(* clock advance.  average_response_time_seconds is the quotient num/den,  *)
(* kept as the pair [num, den].                                            *)
(*                                                                         *)
(* Flashcard.perceived_difficulty is written by the two review handlers    *)
(* and read only by get_difficulty_score; it feeds nothing that is         *)
(* modelled here and is left out, as are the content columns.              *)
(***************************************************************************)
EXTENDS Integers, Sequences, FiniteSets, TLC

VARIABLES
    now,      \* the wall clock, datetime.now(timezone.utc), in days
    cards,    \* table flashcards: card id -> row
    reviews,  \* table review_sessions: the sequence of rows added
    users,    \* table users: user id -> the statistics sync.py maintains
    pc,       \* per request worker: "idle", or "loaded" between query and commit
    loc,      \* per request worker: the session's in-memory Flashcard and its loaded snapshot
    last,     \* the last call completed: the caller and the card named, the grade
              \* and jitter of its review_card call, the HTTP status returned, and
              \* seq, which changes with every completed call
    decks,    \* table decks: deck id -> the cached card counters of the row
    sessions, \* table study_sessions: the sequence of rows added
    trail     \* the review_card calls made on the card of a scenario, in order

vars == <<now, cards, reviews, users, pc, loc, last, decks, sessions, trail>>

-----------------------------------------------------------------------------
(* Bounds of the model *)

\* reviews explored after the seeded prefix, per card (engine specification)
MaxSteps == 2
\* length of the single-grade review prefixes the engine specification starts from
SeedLen == 9
\* submissions accepted through the API: reviews committed and rows synced
MaxCalls == 2

-----------------------------------------------------------------------------
(* Enumerations and column defaults *)

\* class CardStatus
StatusNew == "new"
StatusLearning == "learning"
StatusReview == "review"
StatusMastered == "mastered"
CardStatus == {StatusNew, StatusLearning, StatusReview, StatusMastered}

\* class DifficultyLevel
AGAIN == 1
HARD == 2
GOOD == 3
EASY == 4
DifficultyLevel == {AGAIN, HARD, GOOD, EASY}

\* the three places a rounded float result can land relative to the decimal
Round == {-1, 0, 1}

Fl(d, e) == [dec |-> d, err |-> e]

\* last_reviewed_at is nullable and starts as None
NoDate == 0 - 1

\* response_time_seconds=None
NoTime == [given |-> FALSE, v |-> 0]
Time(n) == [given |-> TRUE, v |-> n]

\* A row as the Column defaults of class Flashcard create it.
NewCard(deck, t) ==
    [ deck_id |-> deck,
      is_active |-> TRUE,
      created_at |-> t,
      status |-> StatusNew,
      ease_factor |-> Fl(250, 0),
      interval_days |-> 0,
      repetitions |-> 0,
      next_review_date |-> t,
      last_reviewed_at |-> NoDate,
      total_reviews |-> 0,
      correct_reviews |-> 0,
      streak_correct |-> 0,
      longest_streak |-> 0,
      total_study_time_seconds |-> 0,
      average_response_time_seconds |-> [num |-> 0, den |-> 1],
      learning_velocity |-> Fl(100, 0),
      mistake_count |-> 0 ]

-----------------------------------------------------------------------------
(* Float helpers *)

Max(a, b) == IF a >= b THEN a ELSE b
Min(a, b) == IF a <= b THEN a ELSE b

\* the decimals at which the code can tell the double from its decimal
Observable(d) == d % 25 = 0 \/ d = 130 \/ d = 30

\* where a rounded result of decimal d can land
RoundAt(d) == IF Observable(d) THEN Round ELSE {0}

\* x + delta for a delta that is no dyadic number: the sum is rounded, r says where to
FlAdd(x, delta, r) == Fl(x.dec + delta, IF Observable(x.dec + delta) THEN r ELSE 0)

\* max(lo, x) against the literal lo/100
FlMax(lo, x) == IF x.dec < lo \/ (x.dec = lo /\ x.err < 0) THEN Fl(lo, 0) ELSE x

\* min(hi, x) against the literal hi/100
FlMin(hi, x) == IF x.dec > hi \/ (x.dec = hi /\ x.err > 0) THEN Fl(hi, 0) ELSE x

\* x >= lit/100
FlGE(x, lit) == x.dec > lit \/ (x.dec = lit /\ x.err >= 0)

\* x <= lit/100
FlLE(x, lit) == x.dec < lit \/ (x.dec = lit /\ x.err <= 0)

\* the double holds dec/100 exactly: a multiple of 0.25 that no rounding moved
FlExact(x) == x.err = 0 /\ x.dec % 25 = 0

-----------------------------------------------------------------------------
(* Flashcard: the scheduling engine *)

\* Flashcard.get_accuracy_rate() >= 0.8
AccuracyAtLeast80(c) ==
    IF c.total_reviews = 0 THEN FALSE ELSE c.correct_reviews * 10 >= 8 * c.total_reviews

\* _handle_correct_review without "Ensure ease factor stays within bounds"
HandleCorrectReview_Unclamped(c, difficulty, fe, fv) ==
    LET streak == c.streak_correct + 1
    IN  [c EXCEPT !.correct_reviews = @ + 1,
                  !.streak_correct = streak,
                  !.longest_streak = Max(@, streak),
                  !.ease_factor = IF difficulty = EASY THEN FlAdd(@, 15, fe)
                                  ELSE IF difficulty = HARD THEN FlAdd(@, 0 - 15, fe)
                                  ELSE @,
                  !.learning_velocity =
                      IF difficulty = EASY THEN FlMin(200, FlAdd(@, 10, fv))
                      ELSE IF difficulty = HARD THEN FlMax(50, FlAdd(@, 0 - 5, fv))
                      ELSE @,
                  !.repetitions = @ + 1]

\* _handle_correct_review without the min(2.0, ...) around the EASY velocity
HandleCorrectReview_VelocityUncapped(c, difficulty, fe, fv) ==
    LET streak == c.streak_correct + 1
        ease == IF difficulty = EASY THEN FlAdd(c.ease_factor, 15, fe)
                ELSE IF difficulty = HARD THEN FlAdd(c.ease_factor, 0 - 15, fe)
                ELSE c.ease_factor
    IN  [c EXCEPT !.correct_reviews = @ + 1,
                  !.streak_correct = streak,
                  !.longest_streak = Max(@, streak),
                  !.ease_factor = FlMax(130, FlMin(300, ease)),
                  !.learning_velocity =
                      IF difficulty = EASY THEN FlAdd(@, 10, fv)
                      ELSE IF difficulty = HARD THEN FlMax(50, FlAdd(@, 0 - 5, fv))
                      ELSE @,
                  !.repetitions = @ + 1]

\* _handle_correct_review without "self.longest_streak = max(...)"
HandleCorrectReview_StreakNotRecorded(c, difficulty, fe, fv) ==
    LET ease == IF difficulty = EASY THEN FlAdd(c.ease_factor, 15, fe)
                ELSE IF difficulty = HARD THEN FlAdd(c.ease_factor, 0 - 15, fe)
                ELSE c.ease_factor
    IN  [c EXCEPT !.correct_reviews = @ + 1,
                  !.streak_correct = @ + 1,
                  !.ease_factor = FlMax(130, FlMin(300, ease)),
                  !.learning_velocity =
                      IF difficulty = EASY THEN FlMin(200, FlAdd(@, 10, fv))
                      ELSE IF difficulty = HARD THEN FlMax(50, FlAdd(@, 0 - 5, fv))
                      ELSE @,
                  !.repetitions = @ + 1]

\* _handle_correct_review with the floor of the HARD velocity at 0.3, as for a lapse
HandleCorrectReview_HardFloorAsLapse(c, difficulty, fe, fv) ==
    LET streak == c.streak_correct + 1
        ease == IF difficulty = EASY THEN FlAdd(c.ease_factor, 15, fe)
                ELSE IF difficulty = HARD THEN FlAdd(c.ease_factor, 0 - 15, fe)
                ELSE c.ease_factor
    IN  [c EXCEPT !.correct_reviews = @ + 1,
                  !.streak_correct = streak,
                  !.longest_streak = Max(@, streak),
                  !.ease_factor = FlMax(130, FlMin(300, ease)),
                  !.learning_velocity =
                      IF difficulty = EASY THEN FlMin(200, FlAdd(@, 10, fv))
                      ELSE IF difficulty = HARD THEN FlMax(30, FlAdd(@, 0 - 5, fv))
                      ELSE @,
                  !.repetitions = @ + 1]

\* Flashcard._handle_correct_review; fe, fv: where the float sums land
HandleCorrectReview(c, difficulty, fe, fv) ==
    LET streak == c.streak_correct + 1
        ease == IF difficulty = EASY THEN FlAdd(c.ease_factor, 15, fe)
                ELSE IF difficulty = GOOD THEN c.ease_factor
                ELSE IF difficulty = HARD THEN FlAdd(c.ease_factor, 0 - 15, fe)
                ELSE c.ease_factor
        vel == IF difficulty = EASY THEN FlMin(200, FlAdd(c.learning_velocity, 10, fv))
               ELSE IF difficulty = HARD THEN FlMax(50, FlAdd(c.learning_velocity, 0 - 5, fv))
               ELSE c.learning_velocity
    IN  [c EXCEPT !.correct_reviews = @ + 1,
                  !.streak_correct = streak,
                  !.longest_streak = Max(@, streak),
                  !.ease_factor = FlMax(130, FlMin(300, ease)),
                  !.learning_velocity = vel,
                  !.repetitions = @ + 1]

\* _handle_incorrect_review without "self.repetitions = 0"
HandleIncorrectReview_KeepsRepetitions(c, fe, fv) ==
    LET mistakes == c.mistake_count + 1
    IN  [c EXCEPT !.streak_correct = 0,
                  !.mistake_count = mistakes,
                  !.learning_velocity = FlMax(30, FlAdd(@, 0 - 10, fv)),
                  !.ease_factor = IF mistakes > 3 THEN FlMax(130, FlAdd(@, 0 - 20, fe)) ELSE @]

\* _handle_incorrect_review without "self.mistake_count += 1"
HandleIncorrectReview_NoMistakeCount(c, fe, fv) ==
    LET mistakes == c.mistake_count
    IN  [c EXCEPT !.streak_correct = 0,
                  !.repetitions = 0,
                  !.learning_velocity = FlMax(30, FlAdd(@, 0 - 10, fv)),
                  !.ease_factor = IF mistakes > 3 THEN FlMax(130, FlAdd(@, 0 - 20, fe)) ELSE @]

\* _handle_incorrect_review without "Slightly decrease learning velocity"
HandleIncorrectReview_KeepsVelocity(c, fe, fv) ==
    LET mistakes == c.mistake_count + 1
    IN  [c EXCEPT !.streak_correct = 0,
                  !.mistake_count = mistakes,
                  !.repetitions = 0,
                  !.ease_factor = IF mistakes > 3 THEN FlMax(130, FlAdd(@, 0 - 20, fe)) ELSE @]

\* _handle_incorrect_review that lowers the ease factor from the third mistake on
HandleIncorrectReview_LowersFromThird(c, fe, fv) ==
    LET mistakes == c.mistake_count + 1
    IN  [c EXCEPT !.streak_correct = 0,
                  !.mistake_count = mistakes,
                  !.repetitions = 0,
                  !.learning_velocity = FlMax(30, FlAdd(@, 0 - 10, fv)),
                  !.ease_factor = IF mistakes >= 3 THEN FlMax(130, FlAdd(@, 0 - 20, fe)) ELSE @]

\* Flashcard._handle_incorrect_review
HandleIncorrectReview(c, fe, fv) ==
    LET mistakes == c.mistake_count + 1
    IN  [c EXCEPT !.streak_correct = 0,
                  !.mistake_count = mistakes,
                  !.repetitions = 0,
                  !.learning_velocity = FlMax(30, FlAdd(@, 0 - 10, fv)),
                  !.ease_factor = IF mistakes > 3 THEN FlMax(130, FlAdd(@, 0 - 20, fe)) ELSE @]

\* _update_card_status without the total_reviews test: no repetitions means New
UpdateCardStatus_NewWithoutRepetitions(c) ==
    [c EXCEPT !.status =
        IF c.repetitions = 0 THEN StatusNew
        ELSE IF c.repetitions < 3 THEN StatusLearning
        ELSE IF FlGE(c.ease_factor, 200) /\ AccuracyAtLeast80(c) THEN StatusMastered
        ELSE StatusReview]

\* _update_card_status without the learning phase of the first two repetitions
UpdateCardStatus_NoLearningPhase(c) ==
    [c EXCEPT !.status =
        IF c.repetitions = 0
        THEN (IF c.total_reviews = 0 THEN StatusNew ELSE StatusLearning)
        ELSE IF FlGE(c.ease_factor, 200) /\ AccuracyAtLeast80(c) THEN StatusMastered
        ELSE StatusReview]

\* _update_card_status without the accuracy test of the mastered branch
UpdateCardStatus_MasteredWithoutAccuracy(c) ==
    [c EXCEPT !.status =
        IF c.repetitions = 0
        THEN (IF c.total_reviews = 0 THEN StatusNew ELSE StatusLearning)
        ELSE IF c.repetitions < 3 THEN StatusLearning
        ELSE IF FlGE(c.ease_factor, 200) THEN StatusMastered
        ELSE StatusReview]

\* Flashcard._update_card_status
UpdateCardStatus(c) ==
    [c EXCEPT !.status =
        IF c.repetitions = 0
        THEN (IF c.total_reviews = 0 THEN StatusNew ELSE StatusLearning)
        ELSE IF c.repetitions < 3 THEN StatusLearning
        ELSE IF FlGE(c.ease_factor, 200) /\ AccuracyAtLeast80(c) THEN StatusMastered
        ELSE StatusReview]

\* round(interval_days * ease_factor * learning_velocity) in place of int(...):
\* the nearest integer, a half going to the even neighbour
IntervalProduct_Rounded(c, down) ==
    LET exact == c.interval_days * c.ease_factor.dec * c.learning_velocity.dec
        q == exact \div 10000
        r == exact % 10000
    IN  IF 2 * r < 10000 THEN q
        ELSE IF 2 * r > 10000 THEN q + 1
        ELSE IF q % 2 = 0 THEN q ELSE q + 1

\* int(interval_days * ease_factor * learning_velocity): the truncated float product.
\* Where the exact product is an integer and a factor is no exact double, the float
\* product may fall just below it and truncate one lower (down = 1).
IntervalProduct(c, down) ==
    LET exact == c.interval_days * c.ease_factor.dec * c.learning_velocity.dec
        q == exact \div 10000
    IN  IF exact % 10000 = 0 /\ down = 1
           /\ ~(FlExact(c.ease_factor) /\ FlExact(c.learning_velocity))
        THEN q - 1 ELSE q

\* int(interval_days * 0.1), the bound of random.randint(-variance, variance)
Variance(interval) == interval \div 10

\* the interval before randomization without the fixed first and second steps
BaseInterval_NoFixedSteps(c, difficulty, down) ==
    IF difficulty = AGAIN THEN 1
    ELSE Max(1, IntervalProduct(c, down))

\* the interval before randomization
BaseInterval(c, difficulty, down) ==
    IF difficulty = AGAIN THEN 1
    ELSE IF c.repetitions = 1 THEN 1
    ELSE IF c.repetitions = 2 THEN 6
    ELSE Max(1, IntervalProduct(c, down))

\* _schedule_next_review with the cap applied before the randomization
ScheduleNextReview_CapBeforeJitter(c, difficulty, down, jit, t) ==
    LET base == Min(BaseInterval(c, difficulty, down), 365)
        jittered == IF Variance(base) > 0 THEN base + jit ELSE base
        interval == Max(1, jittered)
    IN  [c EXCEPT !.interval_days = interval,
                  !.next_review_date = t + interval]

\* _schedule_next_review that counts the interval from the date the card was due
ScheduleNextReview_FromDueDate(c, difficulty, down, jit, t) ==
    LET base == BaseInterval(c, difficulty, down)
        jittered == IF Variance(base) > 0 THEN base + jit ELSE base
        interval == Min(Max(1, jittered), 365)
    IN  [c EXCEPT !.interval_days = interval,
                  !.next_review_date = @ + interval]

\* Flashcard._schedule_next_review; jit is the value random.randint returns
ScheduleNextReview(c, difficulty, down, jit, t) ==
    LET base == BaseInterval(c, difficulty, down)
        jittered == IF Variance(base) > 0 THEN base + jit ELSE base
        interval == Min(Max(1, jittered), 365)
    IN  [c EXCEPT !.interval_days = interval,
                  !.next_review_date = t + interval]

\* Flashcard.is_due at time t
IsDue(c, t) == c.next_review_date <= t

\* the "Update response time" block of Flashcard.review_card: a falsy
\* response_time_seconds (None, 0) is skipped
FoldResponseTime(c, rt) ==
    IF rt.given /\ rt.v # 0
    THEN LET total == c.total_study_time_seconds + rt.v
         IN  [c EXCEPT !.total_study_time_seconds = total,
                       !.average_response_time_seconds =
                           IF c.total_reviews > 0
                           THEN [num |-> total, den |-> c.total_reviews] ELSE @]
    ELSE c

\* Flashcard.review_card up to and including _update_card_status
ReviewedCard(c, difficulty, rt, t, fe, fv) ==
    LET c1 == [c EXCEPT !.last_reviewed_at = t, !.total_reviews = @ + 1]
        c2 == FoldResponseTime(c1, rt)
        c3 == IF difficulty = AGAIN
              THEN HandleIncorrectReview(c2, fe, fv)
              ELSE HandleCorrectReview(c2, difficulty, fe, fv)
    IN  UpdateCardStatus(c3)

\* Flashcard.review_card
ReviewCard(c, difficulty, rt, t, fe, fv, down, jit) ==
    ScheduleNextReview(ReviewedCard(c, difficulty, rt, t, fe, fv), difficulty, down, jit, t)

\* the values of random.randint(-variance, variance) the model draws: both ends
\* and the middle of the range
JitterSet(c, difficulty, down) ==
    LET v == Variance(BaseInterval(c, difficulty, down))
    IN  {0 - v, 0, v}

\* where the float sums of one review can land: the ease_factor sum (EASY, HARD, and
\* AGAIN past the third mistake) and the learning_velocity sum (all but GOOD)
RoundEase(c, difficulty) ==
    IF difficulty = EASY THEN RoundAt(c.ease_factor.dec + 15)
    ELSE IF difficulty = HARD THEN RoundAt(c.ease_factor.dec - 15)
    ELSE IF difficulty = AGAIN /\ c.mistake_count + 1 > 3 THEN RoundAt(c.ease_factor.dec - 20)
    ELSE {0}

RoundVelocity(c, difficulty) ==
    IF difficulty = EASY THEN RoundAt(c.learning_velocity.dec + 10)
    ELSE IF difficulty = HARD THEN RoundAt(c.learning_velocity.dec - 5)
    ELSE IF difficulty = AGAIN THEN RoundAt(c.learning_velocity.dec - 10)
    ELSE {0}

\* whether the truncated product can come out one lower
Downs(c, difficulty) ==
    IF BaseInterval(c, difficulty, 0) # BaseInterval(c, difficulty, 1) THEN {0, 1} ELSE {0}

\* every outcome of one review_card call on c: the jitter drawn and the card it leaves
ReviewChoices(c, difficulty, rt, t) ==
    UNION { LET r == ReviewedCard(c, difficulty, rt, t, fe, fv)
            IN  UNION { { [jit |-> jit, card |-> ScheduleNextReview(r, difficulty, down, jit, t)] :
                            jit \in JitterSet(r, difficulty, down) } :
                        down \in Downs(r, difficulty) } :
            fe \in RoundEase(c, difficulty), fv \in RoundVelocity(c, difficulty) }

\* every card one review_card call can make of c when the jitter drawn is 0
ReviewOutcomes(c, difficulty, rt, t) ==
    { o.card : o \in { x \in ReviewChoices(c, difficulty, rt, t) : x.jit = 0 } }

-----------------------------------------------------------------------------
(* Request data *)

CardIds == {"c1", "c2"}
Users == {"u1", "u2"}
Workers == {"w1", "w2"}

\* the deck rows
DeckIds == {"d1", "d2"}

\* the cached counters of a Deck row at their column defaults
NewDeck == [total_cards |-> 0, cards_due_count |-> 0, cards_new_count |-> 0,
            cards_learning_count |-> 0, cards_mastered_count |-> 0]

\* Deck.user_id of the two decks; card c1 lies in d1 and card c2 in d2
DeckOwner == [d \in {"d1", "d2"} |-> IF d = "d1" THEN "u1" ELSE "u2"]

\* the JWT identities requests arrive with
Callers == {"u1"}

\* the card ids requests name: c3 names no row
RequestIds == CardIds \cup {"c3"}

\* JSON values of a request body: an integer, a float (n in tenths), a string (its
\* characters), null, or the key missing
JInt(n) == [t |-> "int", n |-> n, s |-> <<>>]
JFloat(tenths) == [t |-> "float", n |-> tenths, s |-> <<>>]
JStr(chars) == [t |-> "str", n |-> 0, s |-> chars]
JNull == [t |-> "null", n |-> 0, s |-> <<>>]
JAbsent == [t |-> "absent", n |-> 0, s |-> <<>>]

\* values of "difficulty" that may reach review_card, and values that cannot
DifficultyInputs == { JInt(n) : n \in 1..4 } \cup { JFloat(37), JStr(<<"3">>) }
BadDifficultyInputs == { JInt(5), JFloat(0 - 5), JStr(<<"3", ".", "7">>), JNull, JAbsent }

ResponseTimes == { NoTime, Time(0 - 1), Time(0), Time(2) }

\* bodies of POST /<flashcard_id>/review
ReviewData ==
    [ difficulty : DifficultyInputs, response_time_seconds : ResponseTimes ]
        \cup [ difficulty : BadDifficultyInputs, response_time_seconds : {NoTime} ]

NoData == [ difficulty |-> JAbsent, response_time_seconds |-> NoTime ]

Digits == {"0", "1", "2", "3", "4", "5", "6", "7", "8", "9"}

DigitValue(ch) ==
    CASE ch = "0" -> 0 [] ch = "1" -> 1 [] ch = "2" -> 2 [] ch = "3" -> 3 [] ch = "4" -> 4
      [] ch = "5" -> 5 [] ch = "6" -> 6 [] ch = "7" -> 7 [] ch = "8" -> 8 [] ch = "9" -> 9

RECURSIVE DigitsValue(_)
DigitsValue(chars) ==
    IF chars = <<>> THEN 0
    ELSE 10 * DigitsValue(SubSeq(chars, 1, Len(chars) - 1)) + DigitValue(chars[Len(chars)])

AllDigits(chars) == chars # <<>> /\ \A i \in 1..Len(chars) : chars[i] \in Digits

\* Python's int(x) of a JSON value: [ok, n]; ok is FALSE where int raises ValueError
\* or TypeError.  A float is truncated towards zero, a string is parsed as a
\* decimal integer with an optional sign, None is a TypeError.
PyInt(v) ==
    CASE v.t = "int" -> [ok |-> TRUE, n |-> v.n]
      [] v.t = "float" ->
            [ok |-> TRUE, n |-> IF v.n >= 0 THEN v.n \div 10 ELSE 0 - ((0 - v.n) \div 10)]
      [] v.t = "str" ->
            IF AllDigits(v.s) THEN [ok |-> TRUE, n |-> DigitsValue(v.s)]
            ELSE IF Len(v.s) > 1 /\ v.s[1] \in {"+", "-"} /\ AllDigits(Tail(v.s))
            THEN [ok |-> TRUE,
                  n |-> IF v.s[1] = "-" THEN 0 - DigitsValue(Tail(v.s)) ELSE DigitsValue(Tail(v.s))]
            ELSE [ok |-> FALSE, n |-> 0]
      [] OTHER -> [ok |-> FALSE, n |-> 0]

\* DifficultyLevel(int(data["difficulty"])) inside try/except (ValueError, TypeError):
\* [ok, n]; the enum lookup raises ValueError for a number that is no member
ParseDifficulty(v) ==
    LET i == PyInt(v)
    IN  IF i.ok /\ i.n \in DifficultyLevel THEN i ELSE [ok |-> FALSE, n |-> 0]

\* the query without the Deck.user_id filter
FindFlashcard_AnyOwner(user, id) == id \in DOMAIN cards

\* the query Flashcard JOIN Deck filtered by card id and Deck.user_id: is there a row
FindFlashcard(user, id) ==
    id \in DOMAIN cards /\ DeckOwner[cards[id].deck_id] = user

\* db.session.commit() of a session holding one loaded Flashcard: the UPDATE sets the
\* columns whose value differs from the one loaded, on the row as it is now
CommitFlashcard(row, snap, obj) ==
    [f \in DOMAIN row |-> IF obj[f] # snap[f] THEN obj[f] ELSE row[f]]

\* class User: the statistics sync_flashcard_review maintains;
\* overall_accuracy_rate is kept as the quotient [num, den]
NewUser == [total_cards_reviewed |-> 0, overall_accuracy_rate |-> [num |-> 0, den |-> 1]]

-----------------------------------------------------------------------------
(* Engine specification: review_card applied over and over to one card *)

NoGrade == AGAIN - 1

\* the cards that k reviews of the one grade g make of a card that has lapsed
\* (was graded AGAIN) j times before
RECURSIVE SeedAfter(_, _, _)
SeedAfter(j, g, k) ==
    IF k > 0 THEN UNION { ReviewOutcomes(c, g, NoTime, 0) : c \in SeedAfter(j, g, k - 1) }
    ELSE IF j > 0 THEN UNION { ReviewOutcomes(c, AGAIN, NoTime, 0) : c \in SeedAfter(j - 1, g, 0) }
    ELSE {NewCard("d1", 0)}

Seeds == UNION { SeedAfter(j, g, k) : j \in {0, 1}, g \in DifficultyLevel, k \in 0..SeedLen }

IdleLoc == [user |-> "u1", id |-> "c1", snap |-> NewCard("d1", 0), obj |-> NewCard("d1", 0),
            data |-> NoData, grade |-> NoGrade, jit |-> 0]

NoCall == [op |-> "none", user |-> "u1", card |-> "c1",
           grade |-> NoGrade, jit |-> 0, code |-> 0, seq |-> 0]

\* the tables as the engine specification leaves them alone
Quiet ==
    /\ reviews = <<>>
    /\ users = [u \in Users |-> NewUser]
    /\ pc = [w \in Workers |-> "idle"]
    /\ loc = [w \in Workers |-> IdleLoc]
    /\ decks = [d \in DeckIds |-> NewDeck]
    /\ sessions = <<>>
    /\ trail = <<>>

EngineInit ==
    /\ now = 0
    /\ \E seed \in Seeds :
          cards = [id \in CardIds |-> IF id = "c1" THEN seed ELSE NewCard("d2", 0)]
    /\ Quiet
    /\ last = NoCall

\* one call card.review_card(difficulty) on the stored card
EngineReview(id, difficulty) ==
    /\ last.seq < MaxSteps
    /\ \E o \in ReviewChoices(cards[id], difficulty, NoTime, now) :
            /\ cards' = [cards EXCEPT ![id] = o.card]
            /\ last' = [NoCall EXCEPT !.op = "review_card", !.card = id,
                                      !.grade = difficulty, !.jit = o.jit,
                                      !.seq = last.seq + 1]
    /\ UNCHANGED <<now, reviews, users, pc, loc, decks, sessions, trail>>

EngineNext == \E difficulty \in DifficultyLevel : EngineReview("c1", difficulty)

SpecEngine == EngineInit /\ [][EngineNext]_vars

-----------------------------------------------------------------------------
(* Request handlers *)

\* values of an optional key of a request body, read with data.get(key, default)
Get(opt, default) == IF opt.given THEN opt.v ELSE default

\* the six snapshot keys of POST /flashcard-review, each optional
NoSnapshot ==
    [ ease_factor_before |-> NoTime, ease_factor_after |-> NoTime,
      interval_before_days |-> NoTime, interval_after_days |-> NoTime,
      repetitions_before |-> NoTime, repetitions_after |-> NoTime ]

\* a snapshot as a client reports it after a second GOOD review
ClientSnapshot ==
    [ ease_factor_before |-> Time(250), ease_factor_after |-> Time(250),
      interval_before_days |-> Time(1), interval_after_days |-> Time(6),
      repetitions_before |-> Time(1), repetitions_after |-> Time(2) ]

\* bodies of POST /flashcard-review; complete: the four required keys are there
SyncData ==
    [ flashcard_id : RequestIds, complete : BOOLEAN, difficulty_rating : {9},
      was_correct : BOOLEAN, response_time_seconds : {2},
      snapshot : {NoSnapshot, ClientSnapshot} ]

\* the response is sent: last records the call
Respond(op, user, id, grade, jit, code) ==
    last' = [ op |-> op, user |-> user, card |-> id, grade |-> grade,
              jit |-> jit, code |-> code, seq |-> 1 - last.seq ]

RECURSIVE SumReviews(_)
SumReviews(ids) ==
    IF ids = {} THEN 0
    ELSE LET id == CHOOSE x \in ids : TRUE
         IN  cards[id].total_reviews + SumReviews(ids \ {id})

\* the submissions accepted so far
Accepted == SumReviews(DOMAIN cards) + Len(reviews)

\* review_flashcard gets as far as flashcard.review_card: the body names a
\* difficulty, the card is found and the difficulty parses
ReviewAccepted(user, id, data) ==
    /\ data.difficulty.t # "absent"
    /\ FindFlashcard(user, id)
    /\ ParseDifficulty(data.difficulty).ok

\* POST /<flashcard_id>/review, review_flashcard, one request from query to response
ReviewFlashcard(user, id, data) ==
    /\ \/ /\ data.difficulty.t = "absent"
          /\ Respond("review", user, id, NoGrade, 0, 400)
          /\ UNCHANGED cards
       \/ /\ data.difficulty.t # "absent"
          /\ ~FindFlashcard(user, id)
          /\ Respond("review", user, id, NoGrade, 0, 404)
          /\ UNCHANGED cards
       \/ /\ data.difficulty.t # "absent"
          /\ FindFlashcard(user, id)
          /\ ~ParseDifficulty(data.difficulty).ok
          /\ Respond("review", user, id, NoGrade, 0, 400)
          /\ UNCHANGED cards
       \/ /\ ReviewAccepted(user, id, data)
          /\ Accepted < MaxCalls
          /\ LET difficulty == ParseDifficulty(data.difficulty).n
             IN  \E o \in ReviewChoices(cards[id], difficulty, data.response_time_seconds, now) :
                    /\ cards' = [cards EXCEPT ![id] = CommitFlashcard(@, @, o.card)]
                    /\ Respond("review", user, id, difficulty, o.jit, 200)
    /\ UNCHANGED <<now, reviews, users, pc, loc, decks, sessions, trail>>

\* the ReviewSession row sync_flashcard_review builds
ReviewSessionRow(user, data) ==
    [ user_id |-> user,
      deck_id |-> cards[data.flashcard_id].deck_id,
      flashcard_id |-> data.flashcard_id,
      difficulty_rating |-> data.difficulty_rating,
      was_correct |-> data.was_correct,
      response_time_seconds |-> data.response_time_seconds,
      reviewed_at |-> now,
      ease_factor_before |-> Get(data.snapshot.ease_factor_before, 250),
      ease_factor_after |-> Get(data.snapshot.ease_factor_after, 250),
      interval_before_days |-> Get(data.snapshot.interval_before_days, 0),
      interval_after_days |-> Get(data.snapshot.interval_after_days, 1),
      repetitions_before |-> Get(data.snapshot.repetitions_before, 0),
      repetitions_after |-> Get(data.snapshot.repetitions_after, 1) ]

\* "Update user stats incrementally" of sync_flashcard_review
UserAfterReview(u, was_correct) ==
    LET old == u.total_cards_reviewed
        total == old + 1
        acc == u.overall_accuracy_rate
        c == IF was_correct THEN 1 ELSE 0
    IN  [ total_cards_reviewed |-> total,
          overall_accuracy_rate |->
              IF total > 1
              THEN (IF acc.den = old THEN [num |-> acc.num + c, den |-> total]
                    ELSE [num |-> acc.num * old + c * acc.den, den |-> acc.den * total])
              ELSE [num |-> c, den |-> 1] ]

\* POST /flashcard-review, sync_flashcard_review
SyncFlashcardReview(user, data) ==
    /\ \/ /\ ~data.complete
          /\ Respond("sync", user, data.flashcard_id, NoGrade, 0, 400)
          /\ UNCHANGED <<reviews, users>>
       \/ /\ data.complete
          /\ ~FindFlashcard(user, data.flashcard_id)
          /\ Respond("sync", user, data.flashcard_id, NoGrade, 0, 404)
          /\ UNCHANGED <<reviews, users>>
       \/ /\ data.complete
          /\ FindFlashcard(user, data.flashcard_id)
          /\ Accepted < MaxCalls
          /\ reviews' = Append(reviews, ReviewSessionRow(user, data))
          /\ users' = [users EXCEPT ![user] = UserAfterReview(@, data.was_correct)]
          /\ Respond("sync", user, data.flashcard_id, NoGrade, 0, 201)
    /\ UNCHANGED <<now, cards, pc, loc, decks, sessions, trail>>

Init ==
    /\ now = 0
    /\ cards = [id \in CardIds |-> IF id = "c1" THEN NewCard("d1", 0) ELSE NewCard("d2", 0)]
    /\ Quiet
    /\ last = NoCall

Next ==
    \/ \E user \in Callers, id \in RequestIds, data \in ReviewData :
          ReviewFlashcard(user, id, data)
    \/ \E user \in Callers, data \in SyncData : SyncFlashcardReview(user, data)

Spec == Init /\ [][Next]_vars

-----------------------------------------------------------------------------
(* Concurrent requests: review_flashcard run by two workers, each with its own  *)
(* session; a request reads the row with its query and writes it with its       *)
(* commit, and the two workers interleave between the two                       *)

\* review_flashcard from the query to the return of flashcard.review_card
ReviewLoad(w, user, id, data) ==
    /\ pc[w] = "idle"
    /\ ReviewAccepted(user, id, data)
    /\ Accepted < MaxCalls
    /\ LET difficulty == ParseDifficulty(data.difficulty).n
       IN  \E o \in ReviewChoices(cards[id], difficulty, data.response_time_seconds, now) :
              loc' = [loc EXCEPT ![w] = [ user |-> user, id |-> id, snap |-> cards[id], obj |-> o.card,
                                         data |-> data, grade |-> difficulty, jit |-> o.jit ]]
    /\ pc' = [pc EXCEPT ![w] = "loaded"]
    /\ UNCHANGED <<now, cards, reviews, users, last, decks, sessions, trail>>

\* review_flashcard from db.session.commit() to the response
ReviewCommit(w) ==
    /\ pc[w] = "loaded"
    /\ cards' = [cards EXCEPT ![loc[w].id] = CommitFlashcard(@, loc[w].snap, loc[w].obj)]
    /\ Respond("review", loc[w].user, loc[w].id, loc[w].grade, loc[w].jit, 200)
    /\ pc' = [pc EXCEPT ![w] = "idle"]
    /\ loc' = [loc EXCEPT ![w] = IdleLoc]
    /\ UNCHANGED <<now, reviews, users, decks, sessions, trail>>

ConcurrentNext ==
    \/ \E w \in Workers, user \in Callers, id \in CardIds, difficulty \in DifficultyLevel :
          ReviewLoad(w, user, id,
                     [difficulty |-> JInt(difficulty), response_time_seconds |-> NoTime])
    \/ \E w \in Workers : ReviewCommit(w)

SpecConcurrent == Init /\ [][ConcurrentNext]_vars

-----------------------------------------------------------------------------
(* Study sessions: StudySession (server/src/models/analytics.py) and the handler *)
(* POST /study-session (server/src/api/sync.py).  Session times are seconds; the *)
(* scores are quotients of small integers and are kept as exact fractions        *)
(* [num, den] in lowest terms.  A StudySession object carries flushed: FALSE     *)
(* between its construction and its first flush, while every column the          *)
(* constructor was not given is still None, TRUE once the row is stored and the  *)
(* column defaults are in place.                                                 *)

\* study_sessions rows kept
MaxSessions == 1

RECURSIVE GCD(_, _)
GCD(a, b) == IF b = 0 THEN a ELSE GCD(b, a % b)

\* the fraction n/d, n >= 0 and d > 0
Rat(n, d) == LET g == GCD(n, d) IN [num |-> n \div g, den |-> d \div g]
RatAdd(x, y) == Rat(x.num * y.den + y.num * x.den, x.den * y.den)
RatMul(x, y) == Rat(x.num * y.num, x.den * y.den)
RatLess(x, y) == x.num * y.den < y.num * x.den

\* int(seconds / 60) of a non-negative number of seconds
DurationMinutes(seconds) == seconds \div 60

\* StudySession(user_id, started_at, **kwargs) as sync_study_session builds it
NewSession(user, data) ==
    [ user_id |-> user,
      flushed |-> FALSE,
      started_at |-> data.started_at.v,
      ended_at |-> Get(data.ended_at, NoDate),
      duration_minutes |-> Get(data.duration_minutes, 0),
      cards_reviewed |-> data.cards_reviewed,
      cards_correct |-> data.cards_correct,
      cards_incorrect |-> data.cards_incorrect,
      accuracy_rate |-> Get(data.accuracy_rate, Rat(0, 1)),
      cards_graduated |-> 0,
      cards_mastered |-> 0,
      focus_score |-> Rat(0, 1),
      session_quality_score |-> Rat(0, 1),
      target_cards |-> 0,
      target_duration_minutes |-> 0,
      goal_achieved |-> FALSE ]

\* StudySession._calculate_quality_score
CalculateQualityScore(s) ==
    LET duration_factor ==
            IF 15 <= s.duration_minutes /\ s.duration_minutes <= 45 THEN Rat(1, 1)
            ELSE IF s.duration_minutes < 15 THEN Rat(s.duration_minutes, 15)
            ELSE IF RatLess(Rat(45, s.duration_minutes), Rat(3, 10)) THEN Rat(3, 10)
            ELSE Rat(45, s.duration_minutes)
        progress_factor ==
            IF s.cards_reviewed > 0
            THEN Rat(s.cards_graduated + s.cards_mastered, s.cards_reviewed)
            ELSE Rat(0, 1)
    IN  RatAdd(RatAdd(RatMul(s.accuracy_rate, Rat(4, 10)), RatMul(duration_factor, Rat(2, 10))),
               RatAdd(RatMul(s.focus_score, Rat(2, 10)), RatMul(progress_factor, Rat(2, 10))))

\* StudySession._check_goal_achievement; a target of 0 stands for None, both falsy
CheckGoalAchievement(s) ==
    IF s.target_cards # 0 /\ s.cards_reviewed < s.target_cards THEN FALSE
    ELSE IF s.target_duration_minutes # 0 /\ s.duration_minutes < s.target_duration_minutes
    THEN FALSE
    ELSE TRUE

\* end_session up to "Calculate quality score": the timing and the accuracy rate
EndSessionTimed(s, t) ==
    LET timed == IF s.ended_at = NoDate
                 THEN [s EXCEPT !.ended_at = t,
                                !.duration_minutes = DurationMinutes(t - s.started_at)]
                 ELSE s
    IN  IF timed.cards_reviewed > 0
        THEN [timed EXCEPT !.accuracy_rate = Rat(timed.cards_correct, timed.cards_reviewed)]
        ELSE timed

\* StudySession.end_session on an object whose columns all hold values; t is the
\* reading of datetime.now(timezone.utc)
EndSession(s, t) ==
    LET a == EndSessionTimed(s, t)
        q == [a EXCEPT !.session_quality_score = CalculateQualityScore(a)]
    IN  [q EXCEPT !.goal_achieved = CheckGoalAchievement(q)]

\* does end_session raise: self.focus_score * 0.2 is None * float (TypeError) on an
\* object that was built without focus_score and has not been flushed
EndSessionRaises(s) == ~s.flushed

\* the INSERT of the row: the column defaults replace what is still None
Flushed(s) == [s EXCEPT !.flushed = TRUE]

\* an optional fraction of a request body
SomeRat(n, d) == [given |-> TRUE, v |-> Rat(n, d)]

\* cards_reviewed, cards_correct, cards_incorrect as clients report them
SessionCounts == { <<0, 0, 0>>, <<2, 1, 1>> }

\* bodies of POST /study-session: the empty body, a body without started_at, and
\* bodies with and without ended_at, duration_minutes and accuracy_rate
SessionData ==
    { [ empty |-> FALSE, started_at |-> Time(0), ended_at |-> e, duration_minutes |-> d,
        cards_reviewed |-> c[1], cards_correct |-> c[2], cards_incorrect |-> c[3],
        accuracy_rate |-> a ] :
        e \in {NoTime, Time(1200)}, d \in {NoTime, Time(20)}, c \in SessionCounts,
        a \in {NoTime, SomeRat(9, 10)} }
    \cup
    { [ empty |-> m, started_at |-> NoTime, ended_at |-> NoTime, duration_minutes |-> NoTime,
        cards_reviewed |-> 0, cards_correct |-> 0, cards_incorrect |-> 0,
        accuracy_rate |-> NoTime ] : m \in BOOLEAN }

\* len(user.study_sessions) once the new row is flushed
SessionsOf(user) == Cardinality({ i \in 1..Len(sessions) : sessions[i].user_id = user })

\* User.update_study_stats(duration, cards_reviewed, accuracy_rate) with
\* total_sessions study sessions of the user
UserAfterSession(u, cards_reviewed, accuracy_rate, total_sessions) ==
    [ total_cards_reviewed |-> u.total_cards_reviewed + cards_reviewed,
      overall_accuracy_rate |->
          IF total_sessions > 0
          THEN RatMul(RatAdd(RatMul(u.overall_accuracy_rate, Rat(total_sessions - 1, 1)),
                             accuracy_rate),
                      Rat(1, total_sessions))
          ELSE accuracy_rate ]

\* POST /study-session, sync_study_session
SyncStudySession(user, data) ==
    /\ \/ /\ data.empty
          /\ Respond("sync_session", user, "c1", NoGrade, 0, 400)
          /\ UNCHANGED <<sessions, users>>
       \/ \* data['started_at'] raises KeyError
          /\ ~data.empty
          /\ ~data.started_at.given
          /\ Respond("sync_session", user, "c1", NoGrade, 0, 500)
          /\ UNCHANGED <<sessions, users>>
       \/ \* session.end_session() raises before db.session.add
          /\ ~data.empty
          /\ data.started_at.given
          /\ data.ended_at.given
          /\ EndSessionRaises(NewSession(user, data))
          /\ Respond("sync_session", user, "c1", NoGrade, 0, 500)
          /\ UNCHANGED <<sessions, users>>
       \/ /\ ~data.empty
          /\ data.started_at.given
          /\ data.ended_at.given => ~EndSessionRaises(NewSession(user, data))
          /\ Len(sessions) < MaxSessions
          /\ LET built == NewSession(user, data)
                 s == IF data.ended_at.given THEN EndSession(built, built.ended_at)
                      ELSE built
             IN  /\ sessions' = Append(sessions, Flushed(s))
                 /\ users' = [users EXCEPT ![user] =
                                 UserAfterSession(@, s.cards_reviewed, s.accuracy_rate,
                                                  SessionsOf(user) + 1)]
          /\ Respond("sync_session", user, "c1", NoGrade, 0, 201)
    /\ UNCHANGED <<now, cards, reviews, pc, loc, decks, trail>>

\* the readings of datetime.now(timezone.utc) when a session is ended, in seconds
EndReadings == {0, 90, 1200, 3600}

\* session.end_session() on the stored row i, then the commit
EndStoredSession(i, t) ==
    /\ i \in 1..Len(sessions)
    /\ IF EndSessionRaises(sessions[i])
       THEN /\ Respond("end_session", sessions[i].user_id, "c1", NoGrade, 0, 500)
            /\ UNCHANGED sessions
       ELSE /\ sessions' = [sessions EXCEPT ![i] = EndSession(@, t)]
            /\ Respond("end_session", sessions[i].user_id, "c1", NoGrade, 0, 200)
    /\ UNCHANGED <<now, cards, reviews, users, pc, loc, decks, trail>>

\* counters a caller may store on a session row
CounterValues == SessionCounts \cup { <<4, 4, 0>> }

\* the counter columns of the stored row i are assigned and committed
AssignCounters(i, c) ==
    /\ i \in 1..Len(sessions)
    /\ <<sessions[i].cards_reviewed, sessions[i].cards_correct, sessions[i].cards_incorrect>> # c
    /\ sessions' = [sessions EXCEPT ![i].cards_reviewed = c[1],
                                    ![i].cards_correct = c[2],
                                    ![i].cards_incorrect = c[3]]
    /\ UNCHANGED <<now, cards, reviews, users, pc, loc, last, decks, trail>>

SessionNext ==
    \/ \E user \in Callers, data \in SessionData : SyncStudySession(user, data)
    \/ \E i \in 1..MaxSessions, t \in EndReadings : EndStoredSession(i, t)
    \/ \E i \in 1..MaxSessions, c \in CounterValues : AssignCounters(i, c)

SpecSession == Init /\ [][SessionNext]_vars

-----------------------------------------------------------------------------
(* Decks: the cached card counters of Deck (server/src/models/deck.py) and the   *)
(* handlers that change the card population (server/src/api/flashcards.py)       *)

\* days the clock advances
MaxNow == 1

\* the deck's rows that pass Flashcard.deck_id == self.id, Flashcard.is_active == True
ActiveCards(d) == { id \in DOMAIN cards : cards[id].deck_id = d /\ cards[id].is_active }

\* the rows of the GROUP BY query: a status appears only with a count above 0
CardCounts(d) ==
    LET n(st) == Cardinality({ id \in ActiveCards(d) : cards[id].status = st })
    IN  { <<st, n(st)>> : st \in { x \in CardStatus : n(x) > 0 } }

\* sum(count for _, count in card_counts)
RECURSIVE SumCounts(_)
SumCounts(rows) ==
    IF rows = {} THEN 0
    ELSE LET r == CHOOSE x \in rows : TRUE IN r[2] + SumCounts(rows \ {r})

\* the count the loop assigns for status st, or keep where no row has that status
CountFor(rows, st, keep) ==
    IF \E r \in rows : r[1] = st THEN (CHOOSE r \in rows : r[1] = st)[2] ELSE keep

\* update_card_counts without "Reset counts"
UpdateCardCountsRow_NoReset(row, d) ==
    LET rows == CardCounts(d)
    IN  [ total_cards |-> SumCounts(rows),
          cards_due_count |->
              Cardinality({ id \in ActiveCards(d) : cards[id].next_review_date <= now }),
          cards_new_count |-> CountFor(rows, StatusNew, row.cards_new_count),
          cards_learning_count |-> CountFor(rows, StatusLearning, row.cards_learning_count),
          cards_mastered_count |-> CountFor(rows, StatusMastered, row.cards_mastered_count) ]

\* update_card_counts that adds the total to the cached one
UpdateCardCountsRow_Accumulates(row, d) ==
    LET rows == CardCounts(d)
    IN  [ total_cards |-> row.total_cards + SumCounts(rows),
          cards_due_count |->
              Cardinality({ id \in ActiveCards(d) : cards[id].next_review_date <= now }),
          cards_new_count |-> CountFor(rows, StatusNew, 0),
          cards_learning_count |-> CountFor(rows, StatusLearning, 0),
          cards_mastered_count |-> CountFor(rows, StatusMastered, 0) ]

\* Deck.update_card_counts: the counters of the row of deck d after the call
UpdateCardCountsRow(row, d) ==
    LET rows == CardCounts(d)
        reset == [row EXCEPT !.cards_new_count = 0, !.cards_learning_count = 0,
                             !.cards_mastered_count = 0, !.cards_due_count = 0]
    IN  [ reset EXCEPT
            !.cards_new_count = CountFor(rows, StatusNew, @),
            !.cards_learning_count = CountFor(rows, StatusLearning, @),
            !.cards_mastered_count = CountFor(rows, StatusMastered, @),
            !.total_cards = SumCounts(rows),
            !.cards_due_count =
                Cardinality({ id \in ActiveCards(d) : cards[id].next_review_date <= now }) ]

\* deck.update_card_counts() and the commit
UpdateCardCounts(d) ==
    /\ decks' = [decks EXCEPT ![d] = UpdateCardCountsRow(@, d)]
    /\ Respond("update_card_counts", DeckOwner[d], "c1", NoGrade, 0, 200)
    /\ UNCHANGED <<now, cards, reviews, users, pc, loc, sessions, trail>>

\* bodies of POST /flashcards/: complete says deck_id, front and back are all there
CreateData == [ deck_id : DeckIds, complete : BOOLEAN ]

\* POST /flashcards/, create_flashcard; id is the uuid4 the new row gets
CreateFlashcard(user, data, id) ==
    /\ id \notin DOMAIN cards
    /\ \/ /\ ~data.complete
          /\ Respond("create", user, id, NoGrade, 0, 400)
          /\ UNCHANGED cards
       \/ /\ data.complete
          /\ DeckOwner[data.deck_id] # user
          /\ Respond("create", user, id, NoGrade, 0, 404)
          /\ UNCHANGED cards
       \/ /\ data.complete
          /\ DeckOwner[data.deck_id] = user
          /\ cards' = [ i \in DOMAIN cards \cup {id} |->
                          IF i = id THEN NewCard(data.deck_id, now) ELSE cards[i] ]
          /\ Respond("create", user, id, NoGrade, 0, 201)
    /\ UNCHANGED <<now, reviews, users, pc, loc, decks, sessions, trail>>

\* the rows of review_sessions that do not belong to card id
RECURSIVE ReviewsWithout(_, _)
ReviewsWithout(rows, id) ==
    IF rows = <<>> THEN <<>>
    ELSE IF Head(rows).flashcard_id = id THEN ReviewsWithout(Tail(rows), id)
    ELSE <<Head(rows)>> \o ReviewsWithout(Tail(rows), id)

\* DELETE /flashcards/<id>, delete_flashcard; the delete cascades to review_history
DeleteFlashcard(user, id) ==
    /\ \/ /\ ~FindFlashcard(user, id)
          /\ Respond("delete", user, id, NoGrade, 0, 404)
          /\ UNCHANGED <<cards, reviews>>
       \/ /\ FindFlashcard(user, id)
          /\ cards' = [ i \in DOMAIN cards \ {id} |-> cards[i] ]
          /\ reviews' = ReviewsWithout(reviews, id)
          /\ Respond("delete", user, id, NoGrade, 0, 200)
    /\ UNCHANGED <<now, users, pc, loc, decks, sessions, trail>>

\* updatable_fields with "status" let in
UpdatableFields_WithStatus ==
    { "front", "back", "hint", "explanation", "tags", "is_active", "source_reference",
      "status" }

\* updatable_fields of update_flashcard
UpdatableFields ==
    { "front", "back", "hint", "explanation", "tags", "is_active", "source_reference" }

\* the values a body of PUT /flashcards/<id> gives to the columns it names
Overwrite ==
    [ is_active |-> FALSE,
      status |-> StatusMastered,
      ease_factor |-> Fl(300, 0),
      interval_days |-> 365,
      repetitions |-> 9,
      next_review_date |-> 9,
      total_reviews |-> 9,
      correct_reviews |-> 9,
      streak_correct |-> 9,
      longest_streak |-> 9,
      mistake_count |-> 9,
      learning_velocity |-> Fl(200, 0) ]

\* a body: the keys it holds and their values
UpdateBody(keys, is_active) ==
    [ keys |-> keys, values |-> [Overwrite EXCEPT !.is_active = is_active] ]

\* bodies of PUT /flashcards/<id>: the empty body, a change of content only,
\* "is_active" true or false, and a body that names every scheduling column
UpdateData ==
    { UpdateBody({}, TRUE), UpdateBody({"front"}, TRUE),
      UpdateBody({"is_active"}, TRUE), UpdateBody({"is_active"}, FALSE),
      UpdateBody({"front"} \cup DOMAIN Overwrite, FALSE) }

\* the loop "for field in updatable_fields: if field in data: setattr(...)"
UpdatedCard(c, data) ==
    [ f \in DOMAIN c |->
        IF f \in UpdatableFields /\ f \in data.keys THEN data.values[f] ELSE c[f] ]

\* PUT /flashcards/<id>, update_flashcard
UpdateFlashcard(user, id, data) ==
    /\ \/ /\ data.keys = {}
          /\ Respond("update", user, id, NoGrade, 0, 400)
          /\ UNCHANGED cards
       \/ /\ data.keys # {}
          /\ ~FindFlashcard(user, id)
          /\ Respond("update", user, id, NoGrade, 0, 404)
          /\ UNCHANGED cards
       \/ /\ data.keys # {}
          /\ FindFlashcard(user, id)
          /\ cards' = [cards EXCEPT ![id] = UpdatedCard(@, data)]
          /\ Respond("update", user, id, NoGrade, 0, 200)
    /\ UNCHANGED <<now, reviews, users, pc, loc, decks, sessions, trail>>

\* a day passes
Tick ==
    /\ now < MaxNow
    /\ now' = now + 1
    /\ UNCHANGED <<cards, reviews, users, pc, loc, last, decks, sessions, trail>>

\* no card yet, the decks with their counters at the column defaults
DeckInit ==
    /\ now = 0
    /\ cards = [id \in {} |-> NewCard("d1", 0)]
    /\ Quiet
    /\ last = NoCall

\* the id the new row gets, and the ids requests name: c3 names no row
DeckCardIds == {"c1"}
DeckRequestIds == DeckCardIds \cup {"c3"}

DeckNext ==
    \/ \E user \in Callers, data \in CreateData, id \in DeckCardIds :
          CreateFlashcard(user, data, id)
    \/ \E user \in Callers, id \in DeckRequestIds : DeleteFlashcard(user, id)
    \/ \E user \in Callers, id \in DeckRequestIds, data \in UpdateData :
          UpdateFlashcard(user, id, data)
    \/ \E user \in Callers, id \in DeckRequestIds, difficulty \in DifficultyLevel :
          ReviewFlashcard(user, id, [difficulty |-> JInt(difficulty),
                                     response_time_seconds |-> NoTime])
    \/ \E d \in DeckIds : UpdateCardCounts(d)
    \/ Tick

SpecDeck == DeckInit /\ [][DeckNext]_vars

\* update_card_counts as a function of the card population: cards of d1 in each
\* status, active or not, and counters left by an earlier, larger population

\* a new card, and cards after one GOOD, three GOOD and four HARD reviews
CountSeeds ==
    SeedAfter(0, GOOD, 0) \cup SeedAfter(0, GOOD, 1) \cup SeedAfter(0, GOOD, 3)
        \cup SeedAfter(0, HARD, 4)

\* counters cached while the deck held more cards
StaleDeck == [total_cards |-> 7, cards_due_count |-> 7, cards_new_count |-> 7,
              cards_learning_count |-> 7, cards_mastered_count |-> 7]

CountsInit ==
    /\ now = 0
    /\ \E a \in CountSeeds, b \in CountSeeds, act \in BOOLEAN :
          cards = [id \in CardIds |-> IF id = "c1" THEN a ELSE [b EXCEPT !.is_active = act]]
    /\ \E prior \in {NewDeck, StaleDeck} : decks = [d \in DeckIds |-> prior]
    /\ reviews = <<>>
    /\ users = [u \in Users |-> NewUser]
    /\ pc = [w \in Workers |-> "idle"]
    /\ loc = [w \in Workers |-> IdleLoc]
    /\ sessions = <<>>
    /\ trail = <<>>
    /\ last = NoCall

CountsNext ==
    \/ \E d \in DeckIds : UpdateCardCounts(d)
    \/ Tick

SpecCounts == CountsInit /\ [][CountsNext]_vars

-----------------------------------------------------------------------------
(* Scenarios: review_card applied to a newly created card, the calls kept in trail *)

\* review_card calls made in a scenario
MaxTrail == 4

\* one call card.review_card(difficulty) on the stored card, recorded in trail
ScenarioReview(id, difficulty) ==
    /\ Len(trail) < MaxTrail
    /\ \E o \in ReviewChoices(cards[id], difficulty, NoTime, now) :
            /\ cards' = [cards EXCEPT ![id] = o.card]
            /\ trail' = Append(trail, [grade |-> difficulty, jit |-> o.jit])
            /\ last' = [NoCall EXCEPT !.op = "review_card", !.card = id,
                                      !.grade = difficulty, !.jit = o.jit,
                                      !.seq = Len(trail) + 1]
    /\ UNCHANGED <<now, reviews, users, pc, loc, decks, sessions>>

ScenarioNext == \E difficulty \in DifficultyLevel : ScenarioReview("c1", difficulty)

SpecScenario == Init /\ [][ScenarioNext]_vars

-----------------------------------------------------------------------------
(* New cards for study: Deck.get_new_cards (server/src/models/deck.py), a    *)
(* query over the deck's cards, applied to card populations of deck d1        *)

\* the largest max_new_cards_per_day a deck row is given
MaxLimit == 2

\* limit=None
NoLimit == 0 - 1

\* the limits a caller asks for: none, or a number from 0 up
Limits == {NoLimit} \cup 0..(MaxLimit + 1)

\* a Deck row with the study configuration column the query reads
DeckWithLimit(m) ==
    [ total_cards |-> 0, cards_due_count |-> 0, cards_new_count |-> 0,
      cards_learning_count |-> 0, cards_mastered_count |-> 0,
      max_new_cards_per_day |-> m ]

\* the rows that pass the filter: of this deck, active, in status New
NewCardsOf(d) ==
    { id \in DOMAIN cards :
        cards[id].deck_id = d /\ cards[id].is_active /\ cards[id].status = StatusNew }

\* order_by(Flashcard.created_at.asc()): the orders the database may return the
\* rows in, rows created at the same time in any order
OrderedByCreatedAt(ids) ==
    { s \in [1..Cardinality(ids) -> ids] :
        /\ \A i, j \in DOMAIN s : i < j => s[i] # s[j]
        /\ \A i, j \in DOMAIN s : i < j => cards[s[i]].created_at <= cards[s[j]].created_at }

\* "Respect daily new card limit": the limit the query is given
EffectiveLimit(d, limit) ==
    IF limit = NoLimit THEN decks[d].max_new_cards_per_day
    ELSE Min(limit, decks[d].max_new_cards_per_day)

\* Deck.get_new_cards(limit), the lists the query may return: "if limit:" applies
\* the limit only when it is not 0
GetNewCards(d, limit) ==
    LET lim == EffectiveLimit(d, limit)
    IN  { IF lim # 0 THEN SubSeq(s, 1, Min(lim, Len(s))) ELSE s :
            s \in OrderedByCreatedAt(NewCardsOf(d)) }

\* one call deck.get_new_cards(limit) and the evaluation of the query; trail
\* holds the ids returned
GetNewCardsCall(d, limit) ==
    /\ \E result \in GetNewCards(d, limit) : trail' = result
    /\ last' = [NoCall EXCEPT !.op = "get_new_cards", !.user = DeckOwner[d],
                              !.seq = 1 - last.seq]
    /\ UNCHANGED <<now, cards, reviews, users, pc, loc, decks, sessions>>

\* the ids of the cards of the population
QueryCardIds == {"c1", "c2", "c3"}

\* what a card of the population may be: new in d1, new and switched off, new in
\* the other deck, or in d1 and reviewed once
CardKinds(t) ==
    { NewCard("d1", t), [NewCard("d1", t) EXCEPT !.is_active = FALSE], NewCard("d2", t) }
        \cup { [c EXCEPT !.created_at = t] : c \in SeedAfter(0, GOOD, 1) }

NewCardsInit ==
    /\ now = MaxNow
    /\ \E created \in [QueryCardIds -> 0..MaxNow] :
          \E kind \in [QueryCardIds -> CardKinds(0)] :
              cards = [id \in QueryCardIds |-> [kind[id] EXCEPT !.created_at = created[id]]]
    /\ \E m \in 0..MaxLimit :
          decks = [d \in DeckIds |-> DeckWithLimit(IF d = "d1" THEN m ELSE MaxLimit)]
    /\ reviews = <<>>
    /\ users = [u \in Users |-> NewUser]
    /\ pc = [w \in Workers |-> "idle"]
    /\ loc = [w \in Workers |-> IdleLoc]
    /\ sessions = <<>>
    /\ trail = <<>>
    /\ last = NoCall

NewCardsNext == \E d \in DeckIds, limit \in Limits : GetNewCardsCall(d, limit)

SpecNewCards == NewCardsInit /\ [][NewCardsNext]_vars

-----------------------------------------------------------------------------
(* Properties of the scheduling engine, checked under SpecEngine *)

\* C1: after every review_card call, whatever the grades so far,
\* 1.3 <= ease_factor <= 3.0.
C1_EaseFactorWithinBounds ==
    \A id \in CardIds : FlGE(cards[id].ease_factor, 130) /\ FlLE(cards[id].ease_factor, 300)

\* nine HARD reviews and nothing else: the ninth would take 2.5 to 1.15
C1_Witness ==
    /\ last.grade = HARD /\ last.seq >= 1
    /\ cards["c1"].total_reviews = 9 /\ cards["c1"].mistake_count = 0
    /\ cards["c1"].learning_velocity.dec = 55
    /\ cards["c1"].ease_factor = Fl(130, 0)

\* C2: after every review_card call, for every grade, prior state and jitter drawn,
\* 1 <= interval_days <= 365.
C2_IntervalWithinBounds ==
    \A id \in CardIds :
        cards[id].total_reviews > 0 =>
            (1 <= cards[id].interval_days /\ cards[id].interval_days <= 365)

\* a correct review of a card already at 365 days, with a positive jitter drawn
C2_Witness ==
    /\ last.seq >= 1 /\ last.grade \in {GOOD, EASY} /\ last.jit > 0
    /\ cards["c1"].repetitions >= 3
    /\ cards["c1"].interval_days = 365

\* C3: right after a review graded AGAIN, repetitions = 0, streak_correct = 0 and
\* interval_days = 1, whatever they were before.
C3_AgainResets ==
    (last.grade = AGAIN /\ last.seq >= 1) =>
        /\ cards[last.card].repetitions = 0
        /\ cards[last.card].streak_correct = 0
        /\ cards[last.card].interval_days = 1

\* the card's first and only lapse, after at least three correct reviews in a row
C3_Witness ==
    /\ last.grade = AGAIN /\ last.seq >= 1
    /\ cards["c1"].mistake_count = 1
    /\ cards["c1"].longest_streak >= 3
    /\ cards["c1"].repetitions = 0

\* the status changes the claim lists
ListedTransitions ==
    { <<StatusNew, StatusLearning>>, <<StatusLearning, StatusReview>>,
      <<StatusLearning, StatusMastered>>, <<StatusReview, StatusMastered>>,
      <<StatusMastered, StatusReview>> }

\* the changes a lapse makes: it sends a card in Review or Mastered back to Learning
LapseTransitions ==
    { <<StatusReview, StatusLearning>>, <<StatusMastered, StatusLearning>> }

\* C4 as stated: a review changes status only along New -> Learning,
\* Learning -> Review, Learning -> Mastered, Review -> Mastered, Mastered -> Review.
C4_OnlyListedTransitions ==
    [][\A id \in CardIds :
          \/ cards'[id].status = cards[id].status
          \/ <<cards[id].status, cards'[id].status>> \in ListedTransitions]_vars

\* C4 amended: a review changes status only along the listed transitions or, when
\* graded AGAIN, from Review or Mastered back to Learning.
C4_TransitionsWithLapse ==
    [][\A id \in CardIds :
          \/ cards'[id].status = cards[id].status
          \/ <<cards[id].status, cards'[id].status>> \in ListedTransitions
          \/ /\ <<cards[id].status, cards'[id].status>> \in LapseTransitions
             /\ last'.grade = AGAIN]_vars

\* a card that was Mastered (three or more correct reviews, no mistake, ease >= 2.0)
\* is in Learning after its first lapse
C4_Witness ==
    /\ last.grade = AGAIN /\ last.seq >= 1
    /\ cards["c1"].mistake_count = 1
    /\ cards["c1"].correct_reviews >= 3
    /\ cards["c1"].correct_reviews = cards["c1"].longest_streak
    /\ FlGE(cards["c1"].ease_factor, 200)
    /\ cards["c1"].status = StatusLearning

\* C5: no review takes a card from Mastered to New, and a card that has been
\* reviewed at least once is never New again.
C5_NeverNewAgain ==
    /\ [](\A id \in CardIds : cards[id].total_reviews > 0 => cards[id].status # StatusNew)
    /\ [][\A id \in CardIds :
            /\ cards[id].status = StatusMastered => cards'[id].status # StatusNew
            /\ cards[id].total_reviews > 0 => cards'[id].total_reviews > 0
            /\ cards[id].status # StatusNew => cards'[id].status # StatusNew]_vars

\* a card graded AGAIN at every review: it has no repetitions and is Learning
C5_Witness ==
    /\ last.grade = AGAIN /\ last.seq >= 1
    /\ cards["c1"].total_reviews >= 2
    /\ cards["c1"].mistake_count = cards["c1"].total_reviews
    /\ cards["c1"].repetitions = 0
    /\ cards["c1"].status = StatusLearning

-----------------------------------------------------------------------------
(* Properties of the request handlers, checked under Spec and SpecConcurrent *)

\* a step that sends a response
Responds == last'.seq # last.seq

\* C6: every successful review submission mutates the card once and appends one
\* review record for it: total_reviews grows by one and the log by one row that
\* references the card.
C6_OneMutationOneRecord ==
    [][(Responds /\ last'.code \in {200, 201}) =>
          /\ cards'[last'.card].total_reviews = cards[last'.card].total_reviews + 1
          /\ Len(reviews') = Len(reviews) + 1
          /\ reviews'[Len(reviews')].flashcard_id = last'.card]_vars

\* C7: reviews of one card processed concurrently take effect one after the other:
\* each commit leaves the card as review_card makes it from the row stored just
\* before, so no update is lost and every commit adds one to total_reviews.
C7_NoLostUpdate ==
    [][\A w \in Workers :
          (pc[w] = "loaded" /\ pc'[w] = "idle") =>
              /\ cards'[loc[w].id].total_reviews = cards[loc[w].id].total_reviews + 1
              /\ cards'[loc[w].id] \in
                    { o.card : o \in ReviewChoices(cards[loc[w].id], loc[w].grade,
                                                   loc[w].data.response_time_seconds, now) }]_vars

\* the grade submitted is one of the integers 1, 2, 3, 4 (as a number or spelled out)
GradeInRange(v) ==
    \/ v.t = "int" /\ v.n \in {1, 2, 3, 4}
    \/ v.t = "str" /\ v.s \in {<<"1">>, <<"2">>, <<"3">>, <<"4">>}

\* C8: a review submission whose grade is outside {1,2,3,4} or is no integer is
\* answered with an error and leaves every field of every card as it was.
C8_InvalidGradeRejected ==
    [][\A user \in Callers, id \in RequestIds, data \in ReviewData :
          (~GradeInRange(data.difficulty) /\ ReviewFlashcard(user, id, data)) =>
              (last'.code >= 400 /\ cards' = cards)]_vars

\* C9: a review submission with a negative response_time_seconds is answered with
\* an error and leaves the card as it was.
C9_NegativeResponseTimeRejected ==
    [][\A user \in Callers, id \in RequestIds, data \in ReviewData :
          ( /\ data.response_time_seconds.given
            /\ data.response_time_seconds.v < 0
            /\ ReviewFlashcard(user, id, data) ) =>
              (last'.code >= 400 /\ cards' = cards)]_vars

\* C10: a review submitted for a card id that names no row, or a row of a deck of
\* another user, is answered with an error, changes no card and appends no record.
C10_UnknownCardRejected ==
    [][( /\ Responds
         /\ last'.op \in {"review", "sync"}
         /\ \/ last'.card \notin DOMAIN cards
            \/ DeckOwner[cards[last'.card].deck_id] # last'.user ) =>
          (last'.code >= 400 /\ cards' = cards /\ reviews' = reviews)]_vars

\* after one review and one synced record, a record for another user's card is
\* refused with 404
C10_Witness ==
    /\ last.op = "sync" /\ last.card = "c2" /\ last.code = 404
    /\ Len(reviews) = 1
    /\ cards["c1"].total_reviews = 1

-----------------------------------------------------------------------------
(* Properties of study sessions, checked under SpecSession *)

\* the summary fields of a session
Summary(s) ==
    << s.ended_at, s.duration_minutes, s.cards_reviewed, s.cards_correct, s.cards_incorrect,
       s.accuracy_rate, s.session_quality_score, s.goal_achieved >>

\* C11: a session is finalized once: end_session on a session whose ended_at is
\* set is refused and leaves every summary field as it was at finalization, also
\* when the counters were changed in between.
C11_FinalizedOnce ==
    [][\A i \in 1..MaxSessions, t \in EndReadings :
          ( /\ i <= Len(sessions)
            /\ sessions[i].ended_at # NoDate
            /\ EndStoredSession(i, t) ) =>
              /\ last'.code >= 400
              /\ Summary(sessions'[i]) = Summary(sessions[i])]_vars

\* C12: ending a session without reviews is no error and leaves cards_reviewed,
\* cards_correct, cards_incorrect and session_quality_score at 0, whatever the
\* duration of the session.
C12_EmptySessionSummary ==
    [][\A i \in 1..MaxSessions, t \in EndReadings :
          ( /\ i <= Len(sessions)
            /\ sessions[i].ended_at = NoDate
            /\ sessions[i].cards_reviewed = 0
            /\ sessions[i].cards_correct = 0
            /\ sessions[i].cards_incorrect = 0
            /\ sessions[i].accuracy_rate = Rat(0, 1)
            /\ EndStoredSession(i, t) ) =>
              /\ last'.code < 400
              /\ sessions'[i].cards_reviewed = 0
              /\ sessions'[i].cards_correct = 0
              /\ sessions'[i].cards_incorrect = 0
              /\ sessions'[i].session_quality_score = Rat(0, 1)]_vars

\* C13: after end_session the accuracy rate is cards_correct / cards_reviewed, and
\* 0 when cards_reviewed is 0, whatever the accuracy rate was before the call.
C13_AccuracyRecomputed ==
    [][\A i \in 1..MaxSessions, t \in EndReadings :
          (i <= Len(sessions) /\ EndStoredSession(i, t)) =>
              sessions'[i].accuracy_rate =
                  IF sessions'[i].cards_reviewed > 0
                  THEN Rat(sessions'[i].cards_correct, sessions'[i].cards_reviewed)
                  ELSE Rat(0, 1)]_vars

-----------------------------------------------------------------------------
(* Properties of the deck counters, checked under SpecDeck and SpecCounts *)

\* the five counters of deck d counted afresh over the card table cs at time t
Recount(cs, t, d) ==
    LET active == { id \in DOMAIN cs : cs[id].deck_id = d /\ cs[id].is_active }
        n(st) == Cardinality({ id \in active : cs[id].status = st })
    IN  [ total_cards |-> Cardinality(active),
          cards_due_count |-> Cardinality({ id \in active : cs[id].next_review_date <= t }),
          cards_new_count |-> n(StatusNew),
          cards_learning_count |-> n(StatusLearning),
          cards_mastered_count |-> n(StatusMastered) ]

\* C14: once a review, a card creation, a card deletion or a change of is_active
\* has completed, the cached counters of every deck equal a full recount over
\* the deck's current cards.
C14_CountersFollowCards ==
    [][( /\ Responds
         /\ last'.op \in {"review", "create", "delete", "update"}
         /\ last'.code < 400 ) =>
          \A d \in DeckIds : decks'[d] = Recount(cards', now', d)]_vars

\* C15: update_card_counts projects the deck's current cards: after it the new,
\* learning and mastered counters are the numbers of active cards in those
\* statuses, total_cards the number of active cards of any status and
\* cards_due_count the number of active cards with next_review_date <= now;
\* nothing of the previous counters is left.
C15_CountsAreProjection ==
    [][\A d \in DeckIds : UpdateCardCounts(d) => decks'[d] = Recount(cards, now, d)]_vars

\* counters that were stale are replaced: two active cards, one of them in status
\* Review, and the inactive or absent statuses count 0
C15_Witness ==
    /\ last.op = "update_card_counts" /\ last.user = "u1"
    /\ decks["d2"] = StaleDeck
    /\ decks["d1"].total_cards = 2
    /\ decks["d1"].cards_new_count = 0
    /\ decks["d1"].cards_mastered_count = 1
    /\ \E id \in CardIds : cards[id].is_active /\ cards[id].status = StatusReview

\* C16: update_card_counts is idempotent: from any cached counters, on the same
\* cards and at the same now, a second call gives what the first gave.
C16_CountsIdempotent ==
    \A d \in DeckIds :
        UpdateCardCountsRow(UpdateCardCountsRow(decks[d], d), d) = UpdateCardCountsRow(decks[d], d)

\* the call has run on a deck with stale counters and two active cards, and a
\* further call would leave the row as it is
C16_Witness ==
    /\ last.op = "update_card_counts" /\ last.user = "u1"
    /\ decks["d2"] = StaleDeck
    /\ decks["d1"].total_cards = 2
    /\ decks["d1"].cards_due_count = 1
    /\ UpdateCardCountsRow(decks["d1"], "d1") = decks["d1"]

-----------------------------------------------------------------------------
(* Review records and scenarios, checked under Spec and SpecScenario *)

\* C17: every review record stored for a card carries the card's ease_factor,
\* interval_days and repetitions from just before the review as its 'before'
\* values and from just after it as its 'after' values; no default stands in
\* for a value the request left out.
C17_RecordSnapshotsMatchCard ==
    [][Len(reviews') = Len(reviews) + 1 =>
          LET r == reviews'[Len(reviews')]
              before == cards[r.flashcard_id]
              after == cards'[r.flashcard_id]
          IN  /\ r.ease_factor_before = before.ease_factor.dec
              /\ r.interval_before_days = before.interval_days
              /\ r.repetitions_before = before.repetitions
              /\ r.ease_factor_after = after.ease_factor.dec
              /\ r.interval_after_days = after.interval_days
              /\ r.repetitions_after = after.repetitions]_vars

\* the grades of the calls made so far, and whether a call drew jitter 0
Grades == [i \in 1..Len(trail) |-> trail[i].grade]
NoJitter(i) == trail[i].jit = 0

\* C18: three GOOD reviews of a new card with jitter 0 give interval_days 1 after
\* the first, 6 after the second and 15 after the third, and repetitions 3 then.
C18_ThreeGoodReviews ==
    /\ Grades = <<GOOD>> => cards["c1"].interval_days = 1
    /\ Grades = <<GOOD, GOOD>> => cards["c1"].interval_days = 6
    /\ (Grades = <<GOOD, GOOD, GOOD>> /\ NoJitter(3)) =>
          (cards["c1"].interval_days = 15 /\ cards["c1"].repetitions = 3)

C18_Witness ==
    /\ Grades = <<GOOD, GOOD, GOOD>> /\ NoJitter(3)
    /\ cards["c1"].total_reviews = 3
    /\ cards["c1"].interval_days = 15

\* C19: AGAIN, GOOD, GOOD on a new card: after the first review status Learning,
\* interval_days 1, repetitions 0, mistake_count 1; after the second
\* repetitions 1, interval_days 1, status Learning; after the third
\* repetitions 2, interval_days 6, status Learning.
C19_LapseThenTwoGood ==
    /\ Grades = <<AGAIN>> =>
          /\ cards["c1"].status = StatusLearning
          /\ cards["c1"].interval_days = 1
          /\ cards["c1"].repetitions = 0
          /\ cards["c1"].mistake_count = 1
    /\ Grades = <<AGAIN, GOOD>> =>
          /\ cards["c1"].repetitions = 1
          /\ cards["c1"].interval_days = 1
          /\ cards["c1"].status = StatusLearning
    /\ Grades = <<AGAIN, GOOD, GOOD>> =>
          /\ cards["c1"].repetitions = 2
          /\ cards["c1"].interval_days = 6
          /\ cards["c1"].status = StatusLearning

C19_Witness ==
    /\ Grades = <<AGAIN, GOOD, GOOD>>
    /\ cards["c1"].mistake_count = 1
    /\ cards["c1"].correct_reviews = 2
    /\ cards["c1"].next_review_date = now + 6

-----------------------------------------------------------------------------
(* Properties of the velocity, the status and the interval, checked under  *)
(* SpecEngine                                                              *)

\* C21: whatever reviews a card created with learning_velocity 1.0 goes through,
\* its learning_velocity stays within 0.3 and 2.0 after each of them.
C21_VelocityWithinBounds ==
    \A id \in DOMAIN cards :
        /\ FlGE(cards[id].learning_velocity, 30)
        /\ FlLE(cards[id].learning_velocity, 200)

\* eleven EASY reviews in a row: the tenth reaches 2.0 and the eleventh is capped
C21_Witness ==
    /\ last.op = "review_card" /\ last.grade = EASY
    /\ cards["c1"].correct_reviews = 11
    /\ cards["c1"].mistake_count = 0
    /\ cards["c1"].learning_velocity.dec = 200

\* C23: after every review the status is a function of the counters: Learning when
\* repetitions < 3, Mastered when repetitions >= 3, ease_factor >= 2.0 and
\* correct_reviews / total_reviews >= 0.8, Review otherwise; so a Mastered card has
\* all three, and a card is New only while it has no review.
C23_StatusFollowsCounters ==
    \A id \in DOMAIN cards :
        LET c == cards[id]
            accurate == 5 * c.correct_reviews >= 4 * c.total_reviews
        IN  /\ c.total_reviews > 0 =>
                  c.status = IF c.repetitions < 3 THEN StatusLearning
                             ELSE IF FlGE(c.ease_factor, 200) /\ accurate THEN StatusMastered
                             ELSE StatusReview
            /\ c.status = StatusMastered =>
                  c.repetitions >= 3 /\ FlGE(c.ease_factor, 200) /\ accurate
            /\ c.status = StatusNew => c.total_reviews = 0

\* a review leaves a card with three repetitions and ease 2.5 in Review because
\* one lapse out of four reviews keeps its accuracy below 0.8
C23_Witness ==
    /\ last.op = "review_card" /\ last.grade = GOOD
    /\ cards["c1"].status = StatusReview
    /\ cards["c1"].repetitions = 3
    /\ cards["c1"].ease_factor = Fl(250, 0)
    /\ cards["c1"].correct_reviews = 3
    /\ cards["c1"].total_reviews = 4

\* n / d rounded to the nearest integer, as round() does it: a half goes to the even
\* neighbour
RoundNearest(n, d) ==
    LET q == n \div d
        r == n % d
    IN  IF 2 * r < d THEN q
        ELSE IF 2 * r > d THEN q + 1
        ELSE IF q % 2 = 0 THEN q ELSE q + 1

\* previous interval x updated ease x updated velocity of a review step, in 1/10000
StepProduct(id) ==
    cards[id].interval_days * cards'[id].ease_factor.dec * cards'[id].learning_velocity.dec

\* interval_days a review step leaves when base is the interval before jitter
AfterJitter(base) == Min(Max(1, base + last'.jit), 365)

C25_EaseLoweredFromFourthLapse ==
    [][ \A id \in DOMAIN cards :
            LET before == cards[id]
                after == cards'[id]
            IN  /\ after.mistake_count >= before.mistake_count
                /\ (after # before /\ last'.grade = AGAIN) =>
                      /\ after.mistake_count = before.mistake_count + 1
                      /\ IF after.mistake_count > 3
                         THEN /\ after.ease_factor.dec = Max(130, before.ease_factor.dec - 20)
                              /\ FlGE(after.ease_factor, 130)
                         ELSE after.ease_factor = before.ease_factor
      ]_vars

\* the fourth lapse of a card that was only ever graded AGAIN: 2.5 becomes 2.3
C25_Witness ==
    /\ last.op = "review_card" /\ last.grade = AGAIN
    /\ cards["c1"].mistake_count = 4
    /\ cards["c1"].total_reviews = 4
    /\ cards["c1"].ease_factor.dec = 230

\* C28: in every state reviews lead a new card to, correct_reviews +
\* mistake_count = total_reviews and repetitions = streak_correct <=
\* longest_streak <= correct_reviews; and longest_streak never decreases.
C28_CountersConsistent ==
    /\ [](\A id \in DOMAIN cards :
            LET c == cards[id]
            IN  /\ c.correct_reviews + c.mistake_count = c.total_reviews
                /\ c.repetitions = c.streak_correct
                /\ c.streak_correct <= c.longest_streak
                /\ c.longest_streak <= c.correct_reviews)
    /\ [][ \A id \in DOMAIN cards :
              cards'[id].longest_streak >= cards[id].longest_streak ]_vars

\* three correct reviews, a lapse, and a correct review: the running streak is 1
\* and the longest still 3
C28_Witness ==
    /\ last.op = "review_card" /\ last.grade # AGAIN
    /\ cards["c1"].total_reviews = 5
    /\ cards["c1"].correct_reviews = 4
    /\ cards["c1"].mistake_count = 1
    /\ cards["c1"].streak_correct = 1
    /\ cards["c1"].longest_streak = 3

\* x <= y for two stored floats
FlLessEq(x, y) == x.dec < y.dec \/ (x.dec = y.dec /\ x.err <= y.err)

\* C29 as stated: a review graded HARD or AGAIN never increases
\* learning_velocity, one graded EASY never decreases it, and one graded GOOD
\* leaves it unchanged.
C29_VelocityMonotone ==
    [][ \A id \in DOMAIN cards :
            LET v == cards[id].learning_velocity
                w == cards'[id].learning_velocity
            IN  cards'[id] # cards[id] =>
                    /\ last'.grade \in {HARD, AGAIN} => FlLessEq(w, v)
                    /\ last'.grade = EASY => FlLessEq(v, w)
                    /\ last'.grade = GOOD => w = v
      ]_vars

\* C29 amended: a review graded AGAIN never increases learning_velocity, one
\* graded EASY never decreases it, one graded GOOD leaves it unchanged, and one
\* graded HARD never increases it while it is at least 0.5; a velocity that lapses
\* have brought below 0.5 is raised to 0.5 by a review graded HARD.
C29_VelocityMonotoneAboveHardFloor ==
    [][ \A id \in DOMAIN cards :
            LET v == cards[id].learning_velocity
                w == cards'[id].learning_velocity
            IN  cards'[id] # cards[id] =>
                    /\ last'.grade = AGAIN => FlLessEq(w, v)
                    /\ last'.grade = HARD =>
                          IF FlGE(v, 50) THEN FlLessEq(w, v) ELSE w = Fl(50, 0)
                    /\ last'.grade = EASY => FlLessEq(v, w)
                    /\ last'.grade = GOOD => w = v
      ]_vars

\* seven lapses take the velocity to 0.3 and a review graded HARD then sets it to 0.5
C29_Witness ==
    /\ last.op = "review_card" /\ last.grade = HARD
    /\ cards["c1"].mistake_count = 7
    /\ cards["c1"].total_reviews = 8
    /\ cards["c1"].learning_velocity = Fl(50, 0)

-----------------------------------------------------------------------------
(* Properties of the response time, checked under Spec *)

\* C26: after every review submitted with a response time of 0 or more,
\* total_study_time_seconds has grown by it and average_response_time_seconds is
\* total_study_time_seconds / total_reviews.
C26_AverageFollowsTotal ==
    [][ \A user \in Callers, id \in CardIds, data \in ReviewData :
            ( /\ data.response_time_seconds.given
              /\ data.response_time_seconds.v >= 0
              /\ ReviewFlashcard(user, id, data)
              /\ last'.code = 200 ) =>
                LET before == cards[id]
                    after == cards'[id]
                    avg == after.average_response_time_seconds
                IN  /\ after.total_study_time_seconds =
                           before.total_study_time_seconds + data.response_time_seconds.v
                    /\ avg.num * after.total_reviews =
                           after.total_study_time_seconds * avg.den
      ]_vars

-----------------------------------------------------------------------------
(* Properties of update_flashcard, checked under SpecDeck *)

\* the scheduling state and counters of a card
SchedulingFields ==
    { "status", "ease_factor", "interval_days", "repetitions", "next_review_date",
      "total_reviews", "correct_reviews", "streak_correct", "longest_streak",
      "mistake_count", "learning_velocity" }

Scheduling(c) == [ f \in SchedulingFields |-> c[f] ]

\* C22: update_flashcard leaves the scheduling state and counters of the card as
\* they were, whatever fields the request body names, and a step that changes them
\* on a stored card is an accepted review of that card.
C22_UpdateKeepsScheduling ==
    [][ /\ \A user \in Callers, id \in DeckRequestIds, data \in UpdateData :
              (id \in DOMAIN cards /\ UpdateFlashcard(user, id, data)) =>
                  /\ id \in DOMAIN cards'
                  /\ Scheduling(cards'[id]) = Scheduling(cards[id])
        /\ \A id \in DOMAIN cards \cap DOMAIN cards' :
              Scheduling(cards'[id]) # Scheduling(cards[id]) =>
                  /\ last'.op = "review" /\ last'.card = id /\ last'.code = 200
      ]_vars

\* an update went through on a reviewed card and switched it off: the body with
\* "is_active" false, alone or next to the scheduling columns
C22_Witness ==
    /\ last.op = "update" /\ last.code = 200
    /\ "c1" \in DOMAIN cards
    /\ ~cards["c1"].is_active
    /\ cards["c1"].total_reviews = 2
    /\ cards["c1"].status = StatusLearning

-----------------------------------------------------------------------------
(* Properties of the due date, checked under SpecDeck *)

\* C27: a reviewed card has next_review_date = time of its last review +
\* interval_days days with interval_days >= 1, so it is not due when the review
\* completes and is due exactly once interval_days days have passed since.
C27_DueAfterInterval ==
    \A id \in DOMAIN cards :
        LET c == cards[id]
        IN  c.last_reviewed_at # NoDate =>
                /\ c.interval_days >= 1
                /\ c.next_review_date = c.last_reviewed_at + c.interval_days
                /\ c.last_reviewed_at = now => ~IsDue(c, now)
                /\ IsDue(c, now) <=> now - c.last_reviewed_at >= c.interval_days

\* a card reviewed on day 1, not due at the end of that review
C27_Witness ==
    /\ now = 1
    /\ last.op = "review" /\ last.code = 200
    /\ "c1" \in DOMAIN cards
    /\ cards["c1"].last_reviewed_at = 1
    /\ cards["c1"].interval_days = 1
    /\ cards["c1"].next_review_date = 2
    /\ ~IsDue(cards["c1"], now)

-----------------------------------------------------------------------------
(* Properties of the new-card query, checked under SpecNewCards *)

\* C30: for every requested limit, none included, and every
\* max_new_cards_per_day >= 0, get_new_cards returns at most
\* max_new_cards_per_day cards, each an active card of this deck in status New,
\* oldest created first.
C30_NewCardsWithinDailyLimit ==
    [][ \A d \in DeckIds, limit \in Limits :
            GetNewCardsCall(d, limit) =>
                /\ Len(trail') <= decks[d].max_new_cards_per_day
                /\ \A i \in DOMAIN trail' : trail'[i] \in NewCardsOf(d)
                /\ \A i, j \in DOMAIN trail' :
                      i < j => cards[trail'[i]].created_at <= cards[trail'[j]].created_at
      ]_vars

=============================================================================
